---- MODULE Spec2Model ----
(***************************************************************************)
(* A model of cargo-outdated: the status resolver and the reporter of      *)
(* ElaborateWorkspace, the manifest rewriting of TempProject, the channel  *)
(* rule valid_latest_version, and the control flow of execute/main.        *)
(***************************************************************************)
EXTENDS Integers, Sequences, FiniteSets, TLC

(* ------------------------------------------------------------------------ *)
(* Bounds of the model                                                      *)
(* ------------------------------------------------------------------------ *)

\* the depth option ranges over None and -1 .. MaxDepth
MaxDepth == 2
\* package versions are 1 .. MaxVer; the current graph pins every package to 1
MaxVer == 2

(* ------------------------------------------------------------------------ *)
(* Option<T>, PackageId, Status                                             *)
(* ------------------------------------------------------------------------ *)

None == <<>>
Some(x) == <<x>>
IsSome(o) == Len(o) = 1
Unwrap(o) == o[1]

Pkg(n, v) == [name |-> n, ver |-> v]

Unchanged == [tag |-> "Unchanged", v |-> 0]
Removed == [tag |-> "Removed", v |-> 0]
Version(v) == [tag |-> "Version", v |-> v]

\* a mutant of from_versions: equal versions are reported as an update
FromVersionsNoEq(from, to) ==
    IF IsSome(to) THEN Version(Unwrap(to)) ELSE Removed

\* Status::from_versions
FromVersions(from, to) ==
    IF IsSome(to)
    THEN IF from = Unwrap(to) THEN Unchanged ELSE Version(Unwrap(to))
    ELSE Removed

\* Status::is_changed
is_changed(s) == s.tag # "Unchanged"

\* semver::Version's Display, for the versions of the model
VersionStr(v) == <<"1.0.0", "2.0.0", "3.0.0", "4.0.0", "5.0.0", "6.0.0">>[v]

\* Display for Status
StatusStr(s) ==
    CASE s.tag = "Unchanged" -> "---"
      [] s.tag = "Removed" -> "Removed"
      [] OTHER -> VersionStr(s.v)

(* ------------------------------------------------------------------------ *)
(* The three resolved graphs                                                *)
(* ------------------------------------------------------------------------ *)

R == Pkg("r", 1)
A == Pkg("a", 1)
B == Pkg("b", 1)
C == Pkg("c", 1)

CurIds == {R, A, B, C}
Names == {"r", "a", "b", "c"}

\* edges every current graph of the model has, and edges it may have
\* (a diamond through <<B, C>>, a cycle through <<C, A>>)
BaseEdges == {<<R, A>>, <<R, B>>, <<A, C>>}
OptEdges == {<<B, C>>, <<C, A>>}

\* pkg_deps of a graph given as a set of ids and a set of edges
DepsOf(ids, E) == [p \in ids |-> {q \in ids : <<p, q>> \in E}]

CurGraphs == {DepsOf(CurIds, BaseEdges \cup S) : S \in SUBSET OptEdges}

\* A compat or latest graph: the current graph's packages with the names in
\* `bump` resolved to version v, the name edges in `drop` no longer required,
\* and, with `dup`, a second package named c (another version) below a.
OtherVer(bump, v, n) == IF n \in bump THEN v ELSE 1

AltVer(bump, v) == IF OtherVer(bump, v, "c") = 1 THEN MaxVer ELSE 1

OtherIds(bump, v, dup) ==
    {Pkg(n, OtherVer(bump, v, n)) : n \in Names}
        \cup (IF dup THEN {Pkg("c", AltVer(bump, v))} ELSE {})

OtherEdges(cur, bump, v, drop, dup) ==
    {<<Pkg(p.name, OtherVer(bump, v, p.name)), Pkg(q.name, OtherVer(bump, v, q.name))>> :
        <<p, q>> \in {e \in CurIds \X CurIds :
                        e[2] \in cur[e[1]] /\ <<e[1].name, e[2].name>> \notin drop}}
        \cup (IF dup
              THEN {<<Pkg("a", OtherVer(bump, v, "a")), Pkg("c", AltVer(bump, v))>>}
              ELSE {})

OtherGraph(cur, bump, v, drop, dup) ==
    DepsOf(OtherIds(bump, v, dup), OtherEdges(cur, bump, v, drop, dup))

OtherChoices ==
    {<<{}, {}, FALSE>>,
     <<{"c"}, {}, FALSE>>,
     <<{"a"}, {<<"a", "c">>}, FALSE>>,
     <<{}, {<<"r", "a">>}, FALSE>>,
     <<{"c"}, {}, TRUE>>}

OtherGraphs(cur) ==
    {OtherGraph(cur, ch[1], v, ch[2], ch[3]) : ch \in OtherChoices, v \in 2..MaxVer}


(* ------------------------------------------------------------------------ *)
(* State                                                                    *)
(* ------------------------------------------------------------------------ *)

VARIABLES
    \* ElaborateWorkspace (current, compat, latest) and Options
    cur,             \* self.pkg_deps of the current workspace
    compat,          \* compat.pkg_deps
    latest,          \* latest.pkg_deps
    members,         \* self.workspace.members()
    workspace_mode,  \* self.workspace_mode
    depth,           \* options.depth
    skip,            \* the skip set handed to resolve_status and the reporter
    ignore,          \* options.ignore
    packages,        \* options.packages
    iterRev,         \* the iteration order of the hash maps of this run
    opt_root,        \* options.root
    \* resolve_status
    root,            \* the root handed to resolve_status and to the reporter
    phase,           \* where the run is
    queue,           \* resolve_status's work queue
    pkg_status,      \* self.pkg_status: path -> PkgStatus
    cursors,         \* history: path -> the cursors it was stored with
    \* print_list / print_json
    format,          \* "list" or "json"
    pqueue,          \* the reporter's work queue
    lines,           \* print_list's `lines`, its elements in the order they went in
    dependencies,    \* print_json's crate_graph.dependencies, likewise
    seen,            \* history: the paths the reporter has taken from its queue
    \* TempProject: the rewriting of one dependency table of a sandbox manifest
    table,           \* the dependency table (`dependencies: &mut Table`)
    exclude,         \* options.exclude
    features,        \* options.features
    root_deps_only,  \* options.root_deps_only
    workspace_only,  \* options.workspace_only
    orig_table,      \* history: the dependency table as the original manifest has it
    features_table,  \* manifest.features
    version_to_latest, \* write_manifest_latest (TRUE) or write_manifest_semver
    regFail,         \* the names whose registry query fails
    mphase,          \* where the rewriting is
    todo,            \* the keys of dep_keys the loop has not reached yet
    reached,         \* history: the keys the loop has reached
    stderr,          \* what eprintln! has written
    skipped,         \* the `skipped` set
    mresult,         \* what update_version_and_feature returned
    \* valid_latest_version
    requirement,     \* the requirement text, a sequence of characters
    reqParts,        \* history: the parts the requirement text was put together from
    candidate,       \* the candidate version's pre-release text
    verdict,         \* what valid_latest_version returned ("none" before the call)
    \* main / execute
    pc,              \* where main is
    flag_format,     \* options.flag_format
    flag_exit_code,  \* options.flag_exit_code
    is_workspace,    \* ela_curr.workspace_mode
    to_report,       \* per root still to report: the changed rows its report has
    failure,         \* the step of execute that fails in this run ("none": none)
    compat_alive,    \* compat_proj's temporary directory exists
    latest_alive,    \* latest_proj's temporary directory exists
    sum,             \* execute's `sum` (workspace mode)
    count,           \* execute's `count` (single-package mode)
    reported,        \* history: the rows the reporter has emitted
    result,          \* what execute returned: <<>> not yet, <<"Err">>, <<"Ok", i>>
    exit_status,     \* the code the process ended with (None while it runs)
    stdout,          \* what execute and the reporter have printed, item by item
    \* find_update
    version,         \* the version the dependency is resolved to at present
    registry,        \* the versions the source returns for the query
    fu_requirement,  \* find_update's `requirement`: None or the parts of its text
    find_latest,     \* find_update's `find_latest`
    aggressive,      \* options.aggressive
    latest_summary,  \* the summary find_update returned (None: none)
    warnings,        \* what TempProject::warn has written
    outcome,         \* "none" before the call, then "Ok", "Err" or "panic"
    \* Options::from and ElaborateWorkspace::from_workspace
    args,            \* the command line: the flags given and their values
    opts,            \* the Options built from it (None before parsing)
    cli_features,    \* the CliFeatures handed to the resolver (None before)
    \* ElaborateWorkspace::determine_root
    current,         \* self.workspace.current(): the member, or None (virtual)
    root_result      \* what determine_root returned (None before the call)

inputsStatus ==
    <<cur, compat, latest, members, workspace_mode, depth, skip, ignore, packages,
      iterRev, opt_root>>

varsStatus ==
    <<inputsStatus, root, phase, queue, pkg_status, cursors, format, pqueue, lines,
      dependencies, seen>>

varsManifest ==
    <<table, exclude, features, root_deps_only, workspace_only, orig_table,
      features_table, version_to_latest,
      regFail, mphase, todo, reached, stderr, skipped, mresult>>

varsChannel == <<requirement, reqParts, candidate, verdict>>

varsMain ==
    <<pc, flag_format, flag_exit_code, is_workspace, to_report, failure,
      compat_alive, latest_alive, sum, count, reported, result, exit_status,
      stdout>>

varsFind ==
    <<version, registry, fu_requirement, find_latest, aggressive, latest_summary,
      warnings, outcome>>

varsOptions == <<args, opts, cli_features>>

varsRoot == <<current, root_result>>

vars ==
    <<varsStatus, varsManifest, varsChannel, varsMain, varsFind, varsOptions,
      varsRoot>>

\* the state of the parts of the program a specification leaves alone
IdleStatus ==
    /\ cur = [p \in {} |-> {}]
    /\ compat = [p \in {} |-> {}]
    /\ latest = [p \in {} |-> {}]
    /\ members = {}
    /\ workspace_mode = FALSE
    /\ depth = <<>>
    /\ skip = {}
    /\ ignore = {}
    /\ packages = {}
    /\ iterRev = FALSE
    /\ opt_root = <<>>
    /\ root = [name |-> "r", ver |-> 1]
    /\ phase = "idle"
    /\ queue = <<>>
    /\ pkg_status = <<>>
    /\ cursors = <<>>
    /\ format = "list"
    /\ pqueue = <<>>
    /\ lines = <<>>
    /\ dependencies = <<>>
    /\ seen = {}

IdleManifest ==
    /\ table = <<>>
    /\ exclude = {}
    /\ features = <<>>
    /\ root_deps_only = FALSE
    /\ workspace_only = FALSE
    /\ orig_table = <<>>
    /\ features_table = <<>>
    /\ version_to_latest = FALSE
    /\ regFail = {}
    /\ mphase = "idle"
    /\ todo = <<>>
    /\ reached = {}
    /\ stderr = <<>>
    /\ skipped = {}
    /\ mresult = "none"

IdleChannel ==
    /\ requirement = <<>>
    /\ reqParts = <<>>
    /\ candidate = <<>>
    /\ verdict = "none"

IdleMain ==
    /\ pc = "idle"
    /\ flag_format = "list"
    /\ flag_exit_code = 0
    /\ is_workspace = FALSE
    /\ to_report = <<>>
    /\ failure = "none"
    /\ compat_alive = FALSE
    /\ latest_alive = FALSE
    /\ sum = 0
    /\ count = 0
    /\ reported = 0
    /\ result = <<>>
    /\ exit_status = <<>>
    /\ stdout = <<>>

IdleFind ==
    /\ version = <<>>
    /\ registry = {}
    /\ fu_requirement = <<>>
    /\ find_latest = FALSE
    /\ aggressive = FALSE
    /\ latest_summary = <<>>
    /\ warnings = <<>>
    /\ outcome = "none"

IdleOptions ==
    /\ args = <<>>
    /\ opts = <<>>
    /\ cli_features = <<>>

IdleRoot ==
    /\ current = <<>>
    /\ root_result = <<>>

(* ------------------------------------------------------------------------ *)
(* Hash map iteration                                                       *)
(* ------------------------------------------------------------------------ *)

NameRank(n) == CASE n = "r" -> 0 [] n = "a" -> 1 [] n = "b" -> 2 [] OTHER -> 3

Key(id) == NameRank(id.name) * 16 + id.ver

\* whether x comes before y when a map of this run is iterated
Before(x, y) == IF iterRev THEN Key(x) > Key(y) ELSE Key(x) < Key(y)

RECURSIVE IterSeq(_)
\* HashMap::keys of a key set, as the sequence the iteration yields
IterSeq(S) ==
    IF S = {} THEN <<>>
    ELSE LET m == CHOOSE x \in S : \A y \in S \ {x} : Before(x, y)
         IN  <<m>> \o IterSeq(S \ {m})

\* a mutant of the cycle break: only the immediate parent is looked at
ContainsLastOnly(path, dep) == path[Len(path)] = dep

\* path.contains(dep)
Contains(path, dep) == \E i \in 1..Len(path) : path[i] = dep

\* a mutant of the depth test: one layer too deep
DepthAllowsOffByOne(d) == depth = None \/ d <= Unwrap(depth)

\* options.depth.is_none() || depth < options.depth.unwrap()
DepthAllows(d) == depth = None \/ d < Unwrap(depth)

\* a mutant of the cursor step: below an absent cursor the name is looked up
\* in the whole graph
ChildCursorRestart(g, cursor, name) ==
    LET deps == IF IsSome(cursor) /\ Unwrap(cursor) \in DOMAIN g
                THEN g[Unwrap(cursor)] ELSE DOMAIN g
        found == SelectSeq(IterSeq(deps), LAMBDA d : d.name = name)
    IN  IF found = <<>> THEN None ELSE Some(Head(found))

\* compat_pkg.and_then(|id| g.pkg_deps.get(&id)).map(HashMap::keys)
\*     .and_then(|mut deps| deps.find(|dep| dep.name() == name)).cloned()
ChildCursor(g, cursor, name) ==
    IF ~IsSome(cursor) THEN None
    ELSE IF Unwrap(cursor) \notin DOMAIN g THEN None
    ELSE LET found == SelectSeq(IterSeq(g[Unwrap(cursor)]), LAMBDA d : d.name = name)
         IN  IF found = <<>> THEN None ELSE Some(Head(found))

\* compat_pkg.map(PackageId::version)
VersionOf(cursor) == IF IsSome(cursor) THEN Some(Unwrap(cursor).ver) ELSE None

\* find_member: the member with the name of `member` (the members of the
\* sandbox workspaces keep their names and versions)
FindMember(member) == CHOOSE m \in members : m.name = member.name

\* self.workspace.current(): the current member, in single-package mode
CurrentMember == [name |-> "r", ver |-> 1]

\* determine_root on the graph g, in single-package mode; None is the error
\* "Root is neither the workspace root nor a direct dependency"
determine_root(g) ==
    IF ~IsSome(opt_root) THEN Some(CurrentMember)
    ELSE IF Unwrap(opt_root) = CurrentMember.name THEN Some(CurrentMember)
    ELSE LET found == SelectSeq(IterSeq(g[CurrentMember]),
                                LAMBDA d : d.name = Unwrap(opt_root))
         IN  IF found = <<>> THEN None ELSE Some(Head(found))

\* the roots execute may hand to resolve_status: each member in workspace
\* mode, determine_root's package otherwise
Roots ==
    IF workspace_mode THEN members
    ELSE {Unwrap(r) : r \in {determine_root(cur)} \ {None}}

\* compat_root / latest_root
OtherRoot(g, r) == IF workspace_mode THEN Some(FindMember(r)) ELSE determine_root(g)

(* ------------------------------------------------------------------------ *)
(* resolve_status                                                           *)
(* ------------------------------------------------------------------------ *)

\* a mutant of the resolver's filter: the skip set is not looked at
ResolveChildrenNoSkip(path) ==
    SelectSeq(IterSeq(cur[path[Len(path)]]), LAMBDA dep : ~Contains(path, dep))

\* the children resolve_status pushes below path, in iteration order
ResolveChildren(path) ==
    SelectSeq(IterSeq(cur[path[Len(path)]]),
              LAMBDA dep : ~Contains(path, dep) /\ dep.name \notin skip)

\* the paths of the model are bounded by the number of packages
PathFits(path) == Len(path) <= Cardinality(CurIds)

\* resolve_status up to the loop: clear the cache, find the roots, push the root
ResolveStart ==
    /\ phase \in (IF workspace_mode THEN {"idle", "printed"} ELSE {"idle"})
    /\ \E r \in Roots :
          /\ root' = r
          /\ IF IsSome(OtherRoot(compat, r)) /\ IsSome(OtherRoot(latest, r))
             THEN /\ queue' = <<[path |-> <<r>>,
                                 compat |-> OtherRoot(compat, r),
                                 latest |-> OtherRoot(latest, r)]>>
                  /\ phase' = "resolve"
             ELSE /\ queue' = <<>>
                  /\ phase' = "failed"
    /\ pkg_status' = <<>>
    /\ cursors' = <<>>
    /\ pqueue' = <<>>
    /\ lines' = <<>>
    /\ dependencies' = <<>>
    /\ seen' = {}
    /\ UNCHANGED <<inputsStatus, format>>
    /\ UNCHANGED <<varsManifest, varsChannel, varsMain, varsFind, varsOptions, varsRoot>>

\* one iteration of resolve_status's loop
ResolveStep ==
    /\ phase = "resolve"
    /\ queue # <<>>
    /\ PathFits(Head(queue).path)
    /\ LET item == Head(queue)
           path == item.path
           pkg == path[Len(path)]
           d == Len(path) - 1
           status == [compat |-> FromVersions(pkg.ver, VersionOf(item.compat)),
                      latest |-> FromVersions(pkg.ver, VersionOf(item.latest))]
           kids == IF DepthAllows(d) THEN ResolveChildren(path) ELSE <<>>
           pushed == [i \in 1..Len(kids) |->
                        [path |-> Append(path, kids[i]),
                         compat |-> ChildCursor(compat, item.compat, kids[i].name),
                         latest |-> ChildCursor(latest, item.latest, kids[i].name)]]
       IN  /\ pkg_status' = [p \in DOMAIN pkg_status \cup {path} |->
                               IF p = path THEN status ELSE pkg_status[p]]
           /\ cursors' = [p \in DOMAIN cursors \cup {path} |->
                               IF p = path
                               THEN [compat |-> item.compat, latest |-> item.latest]
                               ELSE cursors[p]]
           /\ queue' = Tail(queue) \o pushed
           /\ phase' = IF Tail(queue) \o pushed = <<>> THEN "resolved" ELSE "resolve"
    /\ UNCHANGED <<inputsStatus, root, format, pqueue, lines, dependencies, seen>>
    /\ UNCHANGED <<varsManifest, varsChannel, varsMain, varsFind, varsOptions, varsRoot>>


(* ------------------------------------------------------------------------ *)
(* print_list / print_json                                                  *)
(* ------------------------------------------------------------------------ *)

\* dependency.kind() of the edge parent -> pkg, as {:?} prints it
DepKind(parent, pkg) ==
    CASE <<parent.name, pkg.name>> = <<"r", "b">> -> "Development"
      [] <<parent.name, pkg.name>> = <<"c", "a">> -> "Build"
      [] OTHER -> "Normal"

\* dependency.platform().map(ToString::to_string)
Platform(parent, pkg) ==
    IF <<parent.name, pkg.name>> = <<"c", "a">> THEN Some("cfg(unix)") ELSE None

\* a mutant of the ignore test: nothing is ignored
IgnoredNever(name) == FALSE

\* options.ignore.contains(&name)
Ignored(name) == name \in ignore

\* a mutant of the label: the mode is not looked at
LabelBelowCurrentOnly(parent, name) ==
    IF parent = CurrentMember THEN <<name>> ELSE <<parent.name, "->", name>>

\* the label of a non-root row
Label(parent, name) ==
    IF workspace_mode \/ parent = CurrentMember
    THEN <<name>>
    ELSE <<parent.name, "->", name>>

\* the row filter
Passes(status, name) ==
    /\ is_changed(status.compat) \/ is_changed(status.latest)
    /\ packages = {} \/ name \in packages

\* a mutant of the reporter's filter: the skip set is not looked at
PrintChildrenNoSkip(path) ==
    SelectSeq(IterSeq(cur[path[Len(path)]]),
              LAMBDA dep : /\ ~Contains(path, dep)
                           /\ ~workspace_mode \/ dep \notin members)

\* the children the reporter pushes below path, in iteration order
PrintChildren(path) ==
    SelectSeq(IterSeq(cur[path[Len(path)]]),
              LAMBDA dep : /\ ~Contains(path, dep)
                           /\ ~workspace_mode \/ dep \notin members
                           /\ dep.name \notin skip)

\* the queue after one iteration that went on to the next layer
NextLayer(path) ==
    LET kids == IF DepthAllows(Len(path) - 1) THEN PrintChildren(path) ELSE <<>>
    IN  Tail(pqueue) \o [i \in 1..Len(kids) |-> Append(path, kids[i])]

\* the line print_list formats for path
ListLine(path, status) ==
    LET pkg == path[Len(path)]
    IN  IF Len(path) > 1
        THEN LET parent == path[Len(path) - 1]
             IN  <<Label(parent, pkg.name), VersionStr(pkg.ver),
                   StatusStr(status.compat), StatusStr(status.latest),
                   DepKind(parent, pkg),
                   IF IsSome(Platform(parent, pkg))
                   THEN Unwrap(Platform(parent, pkg)) ELSE "---">>
        ELSE <<(<<pkg.name>>), VersionStr(pkg.ver),
               StatusStr(status.compat), StatusStr(status.latest), "---", "---">>

\* the Metadata print_json builds for path
JsonLine(path, status) ==
    LET pkg == path[Len(path)]
    IN  IF Len(path) > 1
        THEN LET parent == path[Len(path) - 1]
             IN  [name |-> Label(parent, pkg.name),
                  project |-> VersionStr(pkg.ver),
                  compat |-> StatusStr(status.compat),
                  latest |-> StatusStr(status.latest),
                  kind |-> Some(DepKind(parent, pkg)),
                  platform |-> Platform(parent, pkg)]
        ELSE [name |-> <<pkg.name>>,
              project |-> VersionStr(pkg.ver),
              compat |-> StatusStr(status.compat),
              latest |-> StatusStr(status.latest),
              kind |-> None,
              platform |-> None]

\* BTreeSet<Metadata>::insert: Metadata is ordered by name alone, and an
\* element that compares equal to one already in the set is not inserted
BTreeInsert(set, line) ==
    IF \E i \in 1..Len(set) : set[i].name = line.name THEN set ELSE Append(set, line)

\* a mutant of the line set: every formatted line is kept
LinesInsertAlways(set, line) == Append(set, line)

\* BTreeSet<String>::insert: a line equal to one already in the set is not
\* inserted
LinesInsert(set, line) ==
    IF \E i \in 1..Len(set) : set[i] = line THEN set ELSE Append(set, line)

\* the reporter is called with the root resolve_status was called with
PrintStart ==
    /\ phase = "resolved"
    /\ \E f \in {"list", "json"} : format' = f
    /\ pqueue' = <<(<<root>>)>>
    /\ lines' = <<>>
    /\ dependencies' = <<>>
    /\ seen' = {}
    /\ phase' = "print"
    /\ UNCHANGED <<inputsStatus, root, queue, pkg_status, cursors>>
    /\ UNCHANGED <<varsManifest, varsChannel, varsMain, varsFind, varsOptions, varsRoot>>

\* one iteration of print_list's loop; overflow_checks is the build's setting
\* for arithmetic overflow, which decides what path.len() - 2 does on the root
PrintListStep ==
    /\ phase = "print"
    /\ format = "list"
    /\ pqueue # <<>>
    /\ \E overflow_checks \in BOOLEAN :
        LET path == Head(pqueue)
            pkg == path[Len(path)]
            status == pkg_status[path]
            abort == /\ ~Ignored(pkg.name)
                     /\ \/ path \notin DOMAIN pkg_status
                        \/ /\ Passes(status, pkg.name)
                           /\ Len(path) < 2
                           /\ overflow_checks
        IN  IF Ignored(pkg.name)
            THEN /\ pqueue' = Tail(pqueue)
                 /\ lines' = lines
                 /\ phase' = IF Tail(pqueue) = <<>> THEN "printed" ELSE "print"
            ELSE IF abort
            THEN /\ pqueue' = <<>>
                 /\ lines' = <<>>
                 /\ phase' = "panicked"
            ELSE /\ lines' = IF Passes(status, pkg.name)
                             THEN LinesInsert(lines, ListLine(path, status))
                             ELSE lines
                 /\ pqueue' = NextLayer(path)
                 /\ phase' = IF NextLayer(path) = <<>> THEN "printed" ELSE "print"
    /\ seen' = seen \cup {Head(pqueue)}
    /\ UNCHANGED <<inputsStatus, root, queue, pkg_status, cursors, format, dependencies>>
    /\ UNCHANGED <<varsManifest, varsChannel, varsMain, varsFind, varsOptions, varsRoot>>

\* one iteration of print_json's loop
PrintJsonStep ==
    /\ phase = "print"
    /\ format = "json"
    /\ pqueue # <<>>
    /\ LET path == Head(pqueue)
           pkg == path[Len(path)]
           status == pkg_status[path]
       IN  IF Ignored(pkg.name)
           THEN /\ pqueue' = Tail(pqueue)
                /\ dependencies' = dependencies
                /\ phase' = IF Tail(pqueue) = <<>> THEN "printed" ELSE "print"
           ELSE IF path \notin DOMAIN pkg_status
           THEN /\ pqueue' = <<>>
                /\ dependencies' = <<>>
                /\ phase' = "panicked"
           ELSE /\ dependencies' = IF Passes(status, pkg.name)
                                   THEN BTreeInsert(dependencies, JsonLine(path, status))
                                   ELSE dependencies
                /\ pqueue' = NextLayer(path)
                /\ phase' = IF NextLayer(path) = <<>> THEN "printed" ELSE "print"
    /\ seen' = seen \cup {Head(pqueue)}
    /\ UNCHANGED <<inputsStatus, root, queue, pkg_status, cursors, format, lines>>
    /\ UNCHANGED <<varsManifest, varsChannel, varsMain, varsFind, varsOptions, varsRoot>>

(* ------------------------------------------------------------------------ *)
(* The status resolver and the reporter as a system                         *)
(* ------------------------------------------------------------------------ *)

Depths == {None} \cup {Some(n) : n \in -1..MaxDepth}

InitStatus ==
    /\ cur \in CurGraphs
    /\ compat \in OtherGraphs(cur)
    /\ latest \in OtherGraphs(cur)
    /\ \E m \in {<<FALSE, {R}, None>>, <<FALSE, {R}, Some("a")>>,
                 <<TRUE, {R}, None>>, <<TRUE, {R, B}, None>>} :
          /\ workspace_mode = m[1]
          /\ members = m[2]
          /\ opt_root = m[3]
    /\ depth \in Depths
    /\ skip \in {{}, {"b"}}
    /\ \E o \in {<<{}, {}>>, <<{"a"}, {}>>, <<{}, {"c"}>>, <<{"c"}, {"a", "r"}>>} :
          /\ ignore = o[1]
          /\ packages = o[2]
    /\ iterRev \in BOOLEAN
    /\ root = R
    /\ phase = "idle"
    /\ queue = <<>>
    /\ pkg_status = <<>>
    /\ cursors = <<>>
    /\ format = "list"
    /\ pqueue = <<>>
    /\ lines = <<>>
    /\ dependencies = <<>>
    /\ seen = {}
    /\ IdleManifest
    /\ IdleChannel
    /\ IdleMain
    /\ IdleFind
    /\ IdleOptions
    /\ IdleRoot

NextStatus ==
    \/ ResolveStart
    \/ ResolveStep
    \/ PrintStart
    \/ PrintListStep
    \/ PrintJsonStep

SpecStatus == InitStatus /\ [][NextStatus]_vars

(* ------------------------------------------------------------------------ *)
(* TempProject: rewriting one dependency table of a sandbox manifest        *)
(* ------------------------------------------------------------------------ *)

\* A dependency entry (toml Value). A string entry `name = "req"` has isTable
\* FALSE and its requirement in `version`; an inline table has the keys
\* version, package, features, optional and path, each possibly absent.
\* path: "none" (no path key), "inside" (relative, its manifest exists in the
\* sandbox), "outside" (relative, no manifest in the sandbox), "canonical"
\* (the absolute path fs::canonicalize returns).
Entry(isTable, req, package, feats, optional, path) ==
    [isTable |-> isTable, version |-> req, package |-> package,
     features |-> feats, optional |-> optional, path |-> path]

StringEntry == Entry(FALSE, Some("1.0"), None, None, FALSE, "none")
TableEntry == Entry(TRUE, Some("1.0"), None, None, FALSE, "none")
FeatureEntry == Entry(TRUE, Some("1.0"), None, Some(<<"std", "gone">>), TRUE, "none")
RenamedEntry == Entry(TRUE, Some("1.0"), Some("b"), None, FALSE, "none")
OutsideEntry == Entry(TRUE, None, None, None, FALSE, "outside")
InsideEntry == Entry(TRUE, None, None, None, FALSE, "inside")

DepKeys == {"a", "b", "c"}

\* the dependency tables of the model
Tables ==
    {[k \in DepKeys |-> CASE k = "a" -> ea [] k = "b" -> eb [] OTHER -> ec] :
        ea \in {StringEntry, TableEntry, FeatureEntry, OutsideEntry},
        eb \in {StringEntry, TableEntry, RenamedEntry, InsideEntry},
        ec \in {StringEntry, FeatureEntry}}

\* (root_deps_only, workspace_only) as Options::from leaves them: neither
\* flag, -R, or -e (which sets both)
OptionFlags == {<<FALSE, FALSE>>, <<TRUE, FALSE>>, <<TRUE, TRUE>>}

\* manifest.features, absent or a table with two features that name each other
FeatureTables ==
    {None, Some([f \in {"extra", "more"} |->
                    IF f = "extra" THEN <<"a", "more">> ELSE <<"extra">>])}

\* Table::keys of a toml table: a BTreeMap, iterated in key order
RECURSIVE KeySeq(_)
KeySeq(S) ==
    IF S = {} THEN <<>>
    ELSE LET m == CHOOSE x \in S : \A y \in S : NameRank(x) <= NameRank(y)
         IN  <<m>> \o KeySeq(S \ {m})

\* Table::remove
Remove(t, k) == [x \in DOMAIN t \ {k} |-> t[x]]

\* Table::insert
Insert(t, k, v) == [x \in DOMAIN t \cup {k} |-> IF x = k THEN v ELSE t[x]]

\* options.all_features()
all_features == features = <<>>

\* find_update, as far as the rewriting sees it: an error for the names whose
\* registry query fails, a summary otherwise
find_update(name) ==
    IF name \in regFail
    THEN [ok |-> FALSE, version |-> "", features |-> {}]
    ELSE [ok |-> TRUE, version |-> "2.0.0", features |-> {"std"}]

RECURSIVE ResolveFeatures(_, _, _, _)
\* the worklist of feature_includes: to_resolve is a stack
ResolveFeatures(name, ftable, to_resolve, visited) ==
    IF to_resolve = <<>> THEN FALSE
    ELSE LET feature == to_resolve[Len(to_resolve)]
             rest == SubSeq(to_resolve, 1, Len(to_resolve) - 1)
         IN  IF feature = name THEN TRUE
             ELSE IF feature \in visited
             THEN ResolveFeatures(name, ftable, rest, visited)
             ELSE IF feature \in DOMAIN ftable
             THEN ResolveFeatures(name, ftable, rest \o ftable[feature],
                                  visited \cup {feature})
             ELSE ResolveFeatures(name, ftable, rest, visited \cup {feature})

\* feature_includes
feature_includes(name, optional) ==
    IF all_features THEN TRUE
    ELSE IF ~optional /\ (\E i \in 1..Len(features) : features[i] = "default") THEN TRUE
    ELSE IF ~IsSome(features_table) THEN FALSE
    ELSE ResolveFeatures(name, Unwrap(features_table),
                         SelectSeq(features, LAMBDA f : f # ""), {})

RECURSIVE ReplacePaths(_, _, _)
\* replace_path_with_absolute over the keys `keys` of the table: the table
\* and the skipped set it leaves
ReplacePaths(t, skp, keys) ==
    IF keys = <<>> THEN [table |-> t, skipped |-> skp]
    ELSE LET name == Head(keys)
             original == t[name]
         IN  IF original.isTable /\ original.path = "outside"
             THEN IF root_deps_only
                  THEN ReplacePaths(Remove(t, name),
                                    skp \cup {IF IsSome(original.package)
                                              THEN Unwrap(original.package)
                                              ELSE name},
                                    Tail(keys))
                  ELSE ReplacePaths(Insert(t, name, [original EXCEPT !.path = "canonical"]),
                                    skp, Tail(keys))
             ELSE ReplacePaths(t, skp, Tail(keys))

\* self.options.exclude.contains(&dep_key)
Excluded(dep_key) == dep_key \in exclude

\* a mutant of the write-back: the version is replaced in compat mode too
ReplacedVersionAlways(t, summary) ==
    LET withVersion == IF IsSome(t.version)
                       THEN [t EXCEPT !.version = Some(summary.version)]
                       ELSE t
    IN  IF IsSome(withVersion.features)
        THEN [withVersion EXCEPT !.features =
                 Some(SelectSeq(Unwrap(t.features), LAMBDA f : f \in summary.features))]
        ELSE withVersion

\* the entry update_version_and_feature writes back for an inline table
Replaced(t, summary) ==
    LET withVersion == IF version_to_latest /\ IsSome(t.version)
                       THEN [t EXCEPT !.version = Some(summary.version)]
                       ELSE t
    IN  IF IsSome(withVersion.features)
        THEN [withVersion EXCEPT !.features =
                 Some(SelectSeq(Unwrap(t.features), LAMBDA f : f \in summary.features))]
        ELSE withVersion

\* write_manifest_semver / write_manifest_latest up to the second pass over
\* the table: the manifest is read and replace_path_with_absolute has run
ReplacePathsStep ==
    /\ mphase = "read"
    /\ LET r == ReplacePaths(table, skipped, KeySeq(DOMAIN table))
       IN  /\ table' = r.table
           /\ skipped' = r.skipped
           /\ todo' = KeySeq(DOMAIN r.table)
           /\ mphase' = IF DOMAIN r.table = {} THEN "updated" ELSE "update"
           /\ mresult' = IF DOMAIN r.table = {} THEN "Ok" ELSE "none"
    /\ UNCHANGED <<exclude, features, root_deps_only, workspace_only, orig_table,
                   features_table,
                   version_to_latest, regFail, reached, stderr>>
    /\ UNCHANGED <<varsStatus, varsChannel, varsMain, varsFind, varsOptions, varsRoot>>

\* one iteration of update_version_and_feature's loop over dep_keys
UpdateStep ==
    /\ mphase = "update"
    /\ todo # <<>>
    /\ LET dep_key == Head(todo)
           original == table[dep_key]
           continue == /\ todo' = Tail(todo)
                       /\ mphase' = IF Tail(todo) = <<>> THEN "updated" ELSE "update"
                       /\ mresult' = IF Tail(todo) = <<>> THEN "Ok" ELSE "none"
           query == IF IsSome(original.package) THEN Unwrap(original.package) ELSE dep_key
           summary == find_update(query)
       IN  /\ reached' = reached \cup {dep_key}
           /\ IF Excluded(dep_key)
              THEN continue /\ UNCHANGED <<table, stderr>>
              ELSE IF ~original.isTable
              THEN IF ~version_to_latest
                   THEN continue /\ UNCHANGED <<table, stderr>>
                   ELSE IF find_update(dep_key).ok
                   THEN /\ table' = Insert(table, dep_key,
                               [original EXCEPT
                                   !.version = Some(find_update(dep_key).version)])
                        /\ continue
                        /\ UNCHANGED stderr
                   ELSE /\ stderr' = Append(stderr,
                               <<"Updates to dependency", dep_key, "could not be found">>)
                        /\ continue
                        /\ UNCHANGED table
              ELSE IF ~(version_to_latest \/ IsSome(original.features))
              THEN continue /\ UNCHANGED <<table, stderr>>
              ELSE IF ~feature_includes(dep_key, original.optional)
              THEN continue /\ UNCHANGED <<table, stderr>>
              ELSE IF ~summary.ok
              THEN /\ stderr' = Append(stderr,
                               <<"Update for", dep_key, "could not be found!">>)
                   /\ todo' = todo
                   /\ mphase' = "updated"
                   /\ mresult' = "Ok"
                   /\ UNCHANGED table
              ELSE /\ table' = Insert(table, dep_key, Replaced(original, summary))
                   /\ continue
                   /\ UNCHANGED stderr
    /\ UNCHANGED <<exclude, features, root_deps_only, workspace_only, orig_table,
                   features_table,
                   version_to_latest, regFail, skipped>>
    /\ UNCHANGED <<varsStatus, varsChannel, varsMain, varsFind, varsOptions, varsRoot>>

\* write_manifest: the rewritten table goes to the sandbox manifest
WriteManifestStep ==
    /\ mphase = "updated"
    /\ mphase' = "written"
    /\ UNCHANGED <<table, exclude, features, root_deps_only, workspace_only,
                   orig_table, features_table,
                   version_to_latest, regFail, todo, reached, stderr, skipped,
                   mresult>>
    /\ UNCHANGED <<varsStatus, varsChannel, varsMain, varsFind, varsOptions, varsRoot>>

InitManifest ==
    /\ table \in Tables
    /\ exclude \in {{}, {"a"}, {"c"}}
    /\ features \in {<<>>, <<"default">>, <<"extra">>, <<"a">>}
    /\ orig_table = table
    /\ \E flags \in OptionFlags :
          /\ root_deps_only = flags[1]
          /\ workspace_only = flags[2]
    /\ features_table \in FeatureTables
    /\ version_to_latest \in BOOLEAN
    /\ regFail \in {{}, {"a"}, {"b"}}
    /\ mphase = "read"
    /\ todo = <<>>
    /\ reached = {}
    /\ stderr = <<>>
    /\ skipped = {}
    /\ mresult = "none"
    /\ IdleStatus
    /\ IdleChannel
    /\ IdleMain
    /\ IdleFind
    /\ IdleOptions
    /\ IdleRoot

NextManifest ==
    \/ ReplacePathsStep
    \/ UpdateStep
    \/ WriteManifestStep

SpecManifest == InitManifest /\ [][NextManifest]_vars

(* ------------------------------------------------------------------------ *)
(* valid_latest_version                                                     *)
(* ------------------------------------------------------------------------ *)

\* Texts are sequences of characters.
Digits == {"0", "1", "2", "3", "4", "5", "6", "7", "8", "9"}
Letters == {"a", "b", "e", "h", "l", "p", "t"}
IdentChars == Digits \cup Letters \cup {"-"}

\* the parts requirement texts are put together from
Prefixes == {<<>>, <<"=">>, <<"^">>, <<"~">>, <<">", "=">>}
PreTexts ==
    {<<>>,
     <<"a", "l", "p", "h", "a">>,
     <<"a", "l", "p", "h", "a", ".", "1">>,
     <<"b", "e", "t", "a">>,
     <<"1">>}
BuildTexts == {<<>>, <<"b", "7">>}
Core == <<"1", ".", "0", ".", "0">>

\* the text of a requirement or version: core[-pre][+build] after the operator
Text(prefix, pre, build) ==
    prefix \o Core
        \o (IF pre = <<>> THEN <<>> ELSE <<"-">> \o pre)
        \o (IF build = <<>> THEN <<>> ELSE <<"+">> \o build)

\* str::contains(char)
ContainsChar(text, c) == \E i \in 1..Len(text) : text[i] = c

RECURSIVE TrimStart(_, _)
\* str::trim_start_matches(&[chars])
TrimStart(text, chars) ==
    IF text # <<>> /\ Head(text) \in chars THEN TrimStart(Tail(text), chars) ELSE text

RECURSIVE TakeWhile(_, _)
\* the longest prefix of text made of characters of `chars`
TakeWhile(text, chars) ==
    IF text # <<>> /\ Head(text) \in chars
    THEN <<Head(text)>> \o TakeWhile(Tail(text), chars)
    ELSE <<>>

Drop(text, n) == SubSeq(text, n + 1, Len(text))

\* str::split('.').next(): the text before the first '.'
FirstIdentifier(text) == TakeWhile(text, IdentChars \cup Digits)

\* whether every '.'-separated identifier of text is non-empty
IdentifiersOk(text) ==
    /\ text # <<>>
    /\ text[1] # "." /\ text[Len(text)] # "."
    /\ \A i \in 1..(Len(text) - 1) : ~(text[i] = "." /\ text[i + 1] = ".")

\* a numeric field of a version: digits, no leading zero
NumberOk(num) == num # <<>> /\ (Len(num) > 1 => Head(num) # "0")

\* semver::Version::parse: ok, and the pre-release text of the version
VersionParse(text) ==
    LET major == TakeWhile(text, Digits)
        r1 == Drop(text, Len(major))
        minor == IF r1 # <<>> /\ Head(r1) = "." THEN TakeWhile(Tail(r1), Digits) ELSE <<>>
        r2 == Drop(r1, Len(minor) + 1)
        patch == IF r2 # <<>> /\ Head(r2) = "." THEN TakeWhile(Tail(r2), Digits) ELSE <<>>
        r3 == Drop(r2, Len(patch) + 1)
        hasPre == r3 # <<>> /\ Head(r3) = "-"
        pre == IF hasPre THEN TakeWhile(Tail(r3), IdentChars \cup {"."}) ELSE <<>>
        r4 == IF hasPre THEN Drop(r3, Len(pre) + 1) ELSE r3
        hasBuild == r4 # <<>> /\ Head(r4) = "+"
        build == IF hasBuild THEN TakeWhile(Tail(r4), IdentChars \cup {"."}) ELSE <<>>
        r5 == IF hasBuild THEN Drop(r4, Len(build) + 1) ELSE r4
    IN  [ok |-> /\ NumberOk(major) /\ NumberOk(minor) /\ NumberOk(patch)
                /\ hasPre => IdentifiersOk(pre)
                /\ hasBuild => IdentifiersOk(build)
                /\ r5 = <<>>,
         pre |-> pre]

\* bytes().all(|b| b.is_ascii_digit())
AllDigits(text) == \A i \in 1..Len(text) : text[i] \in Digits

\* the match on (requirement_channel_numeric, version_channel_numeric)
SameChannel(requirement_channel, version_channel) ==
    CASE ~AllDigits(requirement_channel) /\ ~AllDigits(version_channel) ->
            requirement_channel = version_channel
      [] AllDigits(requirement_channel) /\ AllDigits(version_channel) -> TRUE
      [] OTHER -> FALSE

\* valid_latest_version(requirement, version), version given by its
\* pre-release text: "true", "false", or "panic" when expect() fails
valid_latest_version(req, pre) ==
    CASE ~ContainsChar(req, "-") /\ pre # <<>> -> "false"
      [] pre = <<>> -> "true"
      [] OTHER ->
            LET trimmed == TrimStart(req, {"=", " ", "~", "^"})
                requirement_version == VersionParse(trimmed)
            IN  IF ~requirement_version.ok THEN "panic"
                ELSE IF SameChannel(FirstIdentifier(requirement_version.pre),
                                    FirstIdentifier(pre))
                THEN "true" ELSE "false"

\* find_update's filter calls valid_latest_version on a candidate
ValidLatestCall ==
    /\ verdict = "none"
    /\ verdict' = valid_latest_version(requirement, candidate)
    /\ UNCHANGED <<requirement, reqParts, candidate>>
    /\ UNCHANGED <<varsStatus, varsManifest, varsMain, varsFind, varsOptions, varsRoot>>

InitChannel ==
    /\ \E prefix \in Prefixes, pre \in PreTexts, build \in BuildTexts :
          /\ reqParts = [prefix |-> prefix, pre |-> pre, build |-> build]
          /\ requirement = Text(prefix, pre, build)
    /\ candidate \in PreTexts
    /\ verdict = "none"
    /\ IdleStatus
    /\ IdleManifest
    /\ IdleMain
    /\ IdleFind
    /\ IdleOptions
    /\ IdleRoot

NextChannel == ValidLatestCall

SpecChannel == InitChannel /\ [][NextChannel]_vars

(* ------------------------------------------------------------------------ *)
(* main and execute                                                         *)
(* ------------------------------------------------------------------------ *)

MaxRows == 2
\* the most candidates the registry returns for one query
MaxCandidates == 2

Formats == {"list", "json", "xml"}
ExitCodes == {0, 1, 3}
Failures ==
    {"none", "current", "compat", "compat_update", "latest", "latest_update",
     "resolve_status"}

\* an error propagated by `?`: execute returns, its locals are dropped
ReturnErr ==
    /\ pc' = "returned"
    /\ result' = <<"Err">>
    /\ compat_alive' = FALSE
    /\ latest_alive' = FALSE

\* execute returns Ok(i): its locals are dropped
ReturnOk(i) ==
    /\ pc' = "returned"
    /\ result' = <<"Ok", i>>
    /\ compat_alive' = FALSE
    /\ latest_alive' = FALSE

\* configure, find the manifest, Workspace::new, from_workspace
ParseCurrent ==
    /\ pc = "start"
    /\ IF failure = "current"
       THEN ReturnErr
       ELSE pc' = "compat" /\ UNCHANGED <<result, compat_alive, latest_alive>>
    /\ UNCHANGED <<flag_format, flag_exit_code, is_workspace, to_report, failure,
                   sum, count, reported, exit_status, stdout>>
    /\ UNCHANGED <<varsStatus, varsManifest, varsChannel, varsFind, varsOptions, varsRoot>>

\* let compat_proj = TempProject::from_workspace(..)?
MakeCompat ==
    /\ pc = "compat"
    /\ IF failure = "compat"
       THEN ReturnErr
       ELSE /\ pc' = "compat_update"
            /\ compat_alive' = TRUE
            /\ UNCHANGED <<result, latest_alive>>
    /\ UNCHANGED <<flag_format, flag_exit_code, is_workspace, to_report, failure,
                   sum, count, reported, exit_status, stdout>>
    /\ UNCHANGED <<varsStatus, varsManifest, varsChannel, varsFind, varsOptions, varsRoot>>

\* write_manifest_semver, cargo_update, from_workspace of the compat project
UpdateCompat ==
    /\ pc = "compat_update"
    /\ IF failure = "compat_update"
       THEN ReturnErr
       ELSE pc' = "latest" /\ UNCHANGED <<result, compat_alive, latest_alive>>
    /\ UNCHANGED <<flag_format, flag_exit_code, is_workspace, to_report, failure,
                   sum, count, reported, exit_status, stdout>>
    /\ UNCHANGED <<varsStatus, varsManifest, varsChannel, varsFind, varsOptions, varsRoot>>

\* let latest_proj = TempProject::from_workspace(..)?
MakeLatest ==
    /\ pc = "latest"
    /\ IF failure = "latest"
       THEN ReturnErr
       ELSE /\ pc' = "latest_update"
            /\ latest_alive' = TRUE
            /\ UNCHANGED <<result, compat_alive>>
    /\ UNCHANGED <<flag_format, flag_exit_code, is_workspace, to_report, failure,
                   sum, count, reported, exit_status, stdout>>
    /\ UNCHANGED <<varsStatus, varsManifest, varsChannel, varsFind, varsOptions, varsRoot>>

\* write_manifest_latest, cargo_update, from_workspace of the latest project
UpdateLatest ==
    /\ pc = "latest_update"
    /\ IF failure = "latest_update"
       THEN ReturnErr
       ELSE pc' = "report" /\ UNCHANGED <<result, compat_alive, latest_alive>>
    /\ UNCHANGED <<flag_format, flag_exit_code, is_workspace, to_report, failure,
                   sum, count, reported, exit_status, stdout>>
    /\ UNCHANGED <<varsStatus, varsManifest, varsChannel, varsFind, varsOptions, varsRoot>>

UpToDate == "All dependencies are up to date, yay!"

\* a mutant of print_list's output: the line is printed in workspace mode too
print_list_out_any_mode(rows, preceding_line) ==
    IF rows = 0
    THEN <<UpToDate>>
    ELSE (IF preceding_line THEN <<"">> ELSE <<>>)
            \o (IF is_workspace THEN <<"member heading">> ELSE <<>>)
            \o <<"table">>

\* what print_list prints after its loop, for the number of lines it collected
print_list_out(rows, preceding_line) ==
    IF rows = 0
    THEN IF ~is_workspace THEN <<UpToDate>> ELSE <<>>
    ELSE (IF preceding_line THEN <<"">> ELSE <<>>)
            \o (IF is_workspace THEN <<"member heading">> ELSE <<>>)
            \o <<"table">>

\* what print_json prints after its loop: the crate graph, always
print_json_out(rows) == <<"json">>

\* one iteration of `for member in ela_curr.workspace.members()`
ReportMember ==
    /\ pc = "report"
    /\ is_workspace
    /\ to_report # <<>>
    /\ IF failure = "resolve_status"
       THEN ReturnErr /\ UNCHANGED <<to_report, sum, reported, stdout>>
       ELSE /\ to_report' = Tail(to_report)
            /\ stdout' = stdout \o
                  (IF flag_format = "list"
                   THEN print_list_out(Head(to_report), sum > 0)
                   ELSE IF flag_format = "json"
                   THEN print_json_out(Head(to_report))
                   ELSE <<>>)
            /\ sum' = IF flag_format \in {"list", "json"}
                      THEN sum + Head(to_report) ELSE sum
            /\ reported' = IF flag_format \in {"list", "json"}
                           THEN reported + Head(to_report) ELSE reported
            /\ UNCHANGED <<pc, result, compat_alive, latest_alive>>
    /\ UNCHANGED <<flag_format, flag_exit_code, is_workspace, failure, count,
                   exit_status>>
    /\ UNCHANGED <<varsStatus, varsManifest, varsChannel, varsFind, varsOptions, varsRoot>>

\* after the loop: Ok(sum)
FinishWorkspace ==
    /\ pc = "report"
    /\ is_workspace
    /\ to_report = <<>>
    /\ stdout' = IF sum = 0 THEN Append(stdout, UpToDate) ELSE stdout
    /\ ReturnOk(sum)
    /\ UNCHANGED <<flag_format, flag_exit_code, is_workspace, to_report, failure,
                   sum, count, reported, exit_status>>
    /\ UNCHANGED <<varsStatus, varsManifest, varsChannel, varsFind, varsOptions, varsRoot>>

\* the single-package branch
ReportSingle ==
    /\ pc = "report"
    /\ ~is_workspace
    /\ IF failure = "resolve_status"
       THEN ReturnErr /\ UNCHANGED <<to_report, count, reported, exit_status, stdout>>
       ELSE IF flag_format = "list"
       THEN /\ count' = Head(to_report)
            /\ stdout' = stdout \o print_list_out(Head(to_report), FALSE)
            /\ reported' = reported + Head(to_report)
            /\ to_report' = Tail(to_report)
            /\ ReturnOk(Head(to_report))
            /\ UNCHANGED exit_status
       ELSE IF flag_format = "json"
       THEN /\ reported' = reported + Head(to_report)
            /\ stdout' = stdout \o print_json_out(Head(to_report))
            /\ to_report' = Tail(to_report)
            /\ ReturnOk(count)
            /\ UNCHANGED <<count, exit_status>>
       ELSE /\ pc' = "exited"
            /\ exit_status' = Some(2)
            /\ stdout' = Append(stdout,
                  "Error, did not specify list or json output formatting")
            /\ UNCHANGED <<to_report, count, reported, result, compat_alive,
                           latest_alive>>
    /\ UNCHANGED <<flag_format, flag_exit_code, is_workspace, failure, sum>>
    /\ UNCHANGED <<varsStatus, varsManifest, varsChannel, varsFind, varsOptions, varsRoot>>

\* main's match on the result of execute
ProcessExit ==
    /\ pc = "returned"
    /\ pc' = "exited"
    /\ exit_status' =
          IF result = <<"Err">> THEN Some(1)
          ELSE IF result[2] > 0 THEN Some(flag_exit_code) ELSE Some(0)
    /\ UNCHANGED <<flag_format, flag_exit_code, is_workspace, to_report, failure,
                   compat_alive, latest_alive, sum, count, reported, result, stdout>>
    /\ UNCHANGED <<varsStatus, varsManifest, varsChannel, varsFind, varsOptions, varsRoot>>

InitMain ==
    /\ pc = "start"
    /\ flag_format \in Formats
    /\ flag_exit_code \in ExitCodes
    /\ is_workspace \in BOOLEAN
    /\ to_report \in
          IF is_workspace
          THEN [1..1 -> 0..MaxRows] \cup [1..2 -> 0..MaxRows]
          ELSE [1..1 -> 0..MaxRows]
    /\ failure \in Failures
    /\ compat_alive = FALSE
    /\ latest_alive = FALSE
    /\ sum = 0
    /\ count = 0
    /\ reported = 0
    /\ result = <<>>
    /\ exit_status = None
    /\ stdout = <<>>
    /\ IdleStatus
    /\ IdleManifest
    /\ IdleChannel
    /\ IdleFind
    /\ IdleOptions
    /\ IdleRoot

NextMain ==
    \/ ParseCurrent
    \/ MakeCompat
    \/ UpdateCompat
    \/ MakeLatest
    \/ UpdateLatest
    \/ ReportMember
    \/ FinishWorkspace
    \/ ReportSingle
    \/ ProcessExit

SpecMain == InitMain /\ [][NextMain]_vars

(* ------------------------------------------------------------------------ *)
(* TempProject::find_update                                                 *)
(* ------------------------------------------------------------------------ *)

\* the versions of the model: major.0.0 or major.0.0-pre
FindPres == {<<>>, <<"a", "l", "p", "h", "a">>, <<"b", "e", "t", "a">>}
Versions == [major : 1..MaxVer, pre : FindPres]

\* semver's order of pre-release texts: a numeric identifier is below an
\* alphanumeric one, alphanumeric ones compare as text, a longer list of
\* identifiers is above its prefix, and no pre-release is above all
PreRank(pre) ==
    CASE pre = <<"1">> -> 1
      [] pre = <<"a", "l", "p", "h", "a">> -> 2
      [] pre = <<"a", "l", "p", "h", "a", ".", "1">> -> 3
      [] pre = <<"b", "e", "t", "a">> -> 4
      [] pre = <<>> -> 5

\* a < b on semver::Version
VersionLess(a, b) ==
    IF a.major # b.major THEN a.major < b.major ELSE PreRank(a.pre) < PreRank(b.pre)

RECURSIVE SortDescending(_)
\* query_result.sort_by(|a, b| b.version().cmp(a.version()))
SortDescending(summaries) ==
    IF summaries = {} THEN <<>>
    ELSE LET top == CHOOSE a \in summaries : \A b \in summaries : ~VersionLess(a, b)
         IN  <<top>> \o SortDescending(summaries \ {top})

\* the requirements of the model: None, or an operator before 1.0.0[-pre]
Requirements == {<<>>} \cup {<<[prefix |-> prefix, pre |-> pre]>> : prefix \in Prefixes, pre \in FindPres}
RequirementText(req) == Text(req[1].prefix, req[1].pre, <<>>)

\* VersionReq::matches for a requirement of one comparator on 1.0.0[-pre]:
\* the comparator holds, and a pre-release version is matched only by a
\* comparator with a pre-release on the same major.minor.patch
VersionReqMatches(req, summary) ==
    LET comparator == req[1]
        holds ==
            IF comparator.prefix = <<"=">>
            THEN summary.major = 1 /\ summary.pre = comparator.pre
            ELSE IF comparator.prefix = <<">", "=">>
            THEN IF summary.major # 1 THEN summary.major > 1
                 ELSE PreRank(summary.pre) >= PreRank(comparator.pre)
            ELSE summary.major = 1 /\ PreRank(summary.pre) >= PreRank(comparator.pre)
        pre_is_compatible ==
            IF summary.pre = <<>> THEN TRUE
            ELSE summary.major = 1 /\ comparator.pre # <<>>
    IN  holds /\ pre_is_compatible

\* the closure given to find: "true", "false", or "panic"
FilterSummary(summary) ==
    IF VersionLess(summary, version) THEN "false"
    ELSE IF fu_requirement = <<>> THEN "true"
    ELSE IF find_latest
    THEN IF aggressive THEN "true"
         ELSE valid_latest_version(RequirementText(fu_requirement), summary.pre)
    ELSE IF VersionReqMatches(fu_requirement, summary) THEN "true" ELSE "false"

RECURSIVE IterFind(_)
\* query_result.iter().find(..): <<"some", summary>> for the first summary
\* the closure accepts, <<"none">>, or <<"panic">> when the closure panics
IterFind(query_result) ==
    IF query_result = <<>> THEN <<"none">>
    ELSE LET accepted == FilterSummary(Head(query_result))
         IN  IF accepted = "panic" THEN <<"panic">>
             ELSE IF accepted = "true" THEN <<"some", Head(query_result)>>
             ELSE IterFind(Tail(query_result))

\* TempProject::warn: the message goes to the shell at verbosity Quiet or Normal
Warn(quiet, message) ==
    Append(warnings, [verbosity |-> IF quiet THEN "Quiet" ELSE "Normal",
                      message |-> message])

\* what find_update does with the result of find: the summary found, or
\* the warning and the first summary of the sorted query result
LatestSummary(query_result, latest_result, warn_fails, quiet) ==
    IF latest_result[1] = "panic"
    THEN [outcome |-> "panic", latest_summary |-> None, warnings |-> warnings]
    ELSE IF latest_result[1] = "some"
    THEN [outcome |-> "Ok", latest_summary |-> Some(latest_result[2]),
          warnings |-> warnings]
    ELSE IF query_result = <<>>
    THEN \* query_result[0]: index out of bounds
         [outcome |-> "panic", latest_summary |-> None, warnings |-> warnings]
    ELSE IF warn_fails
    THEN [outcome |-> "Err", latest_summary |-> None, warnings |-> warnings]
    ELSE [outcome |-> "Ok", latest_summary |-> Some(query_result[1]),
          warnings |-> Warn(quiet, [latest |-> query_result[1]])]

\* find_update once the source has answered with query_result
FindIn(query_result, warn_fails, quiet) ==
    LatestSummary(query_result, IterFind(query_result), warn_fails, quiet)

\* find_update: the source query may fail, and so may the shell
FindUpdate(query_fails, warn_fails, quiet) ==
    IF query_fails
    THEN [outcome |-> "Err", latest_summary |-> None, warnings |-> warnings]
    ELSE FindIn(SortDescending(registry), warn_fails, quiet)

\* one call of find_update
FindUpdateCall ==
    /\ outcome = "none"
    /\ \E query_fails \in BOOLEAN, warn_fails \in BOOLEAN, quiet \in BOOLEAN :
          \E returned \in {FindUpdate(query_fails, warn_fails, quiet)} :
              /\ outcome' = returned.outcome
              /\ latest_summary' = returned.latest_summary
              /\ warnings' = returned.warnings
    /\ UNCHANGED <<version, registry, fu_requirement, find_latest, aggressive>>
    /\ UNCHANGED <<varsStatus, varsManifest, varsChannel, varsMain, varsOptions, varsRoot>>

InitFind ==
    /\ version \in Versions
    /\ registry \in {summaries \in SUBSET Versions : Cardinality(summaries) <= MaxCandidates}
    /\ fu_requirement \in Requirements
    /\ find_latest \in BOOLEAN
    /\ aggressive \in BOOLEAN
    /\ latest_summary = <<>>
    /\ warnings = <<>>
    /\ outcome = "none"
    /\ IdleStatus
    /\ IdleManifest
    /\ IdleChannel
    /\ IdleMain
    /\ IdleOptions
    /\ IdleRoot

NextFind == FindUpdateCall

SpecFind == InitFind /\ [][NextFind]_vars

(* ------------------------------------------------------------------------ *)
(* Options::from and ElaborateWorkspace::from_workspace                     *)
(* ------------------------------------------------------------------------ *)

\* the value of --depth on the command line: absent, a text that does not
\* parse as an i32, or an i32
DepthArgs ==
    {[kind |-> "absent", value |-> 0], [kind |-> "invalid", value |-> 0]}
        \cup {[kind |-> "int", value |-> n] : n \in -1..MaxDepth}

\* one value of --features: a text of feature names and whitespace
FeatureValues ==
    {<<>>, <<" ">>, <<"foo">>, <<"default">>, <<"foo", " ", "default">>}
\* the values of --features: None when the flag is absent
FeatureArgs ==
    {<<>>} \cup {<<<<v>>>> : v \in FeatureValues}
        \cup {<<<<v, w>>>> : v \in FeatureValues, w \in FeatureValues}

ArgMatches ==
    [root_deps_only : BOOLEAN, ignore_external_rel : BOOLEAN,
     depth : DepthArgs, features : FeatureArgs]

IsName(token) == token # " "
\* str::split_ascii_whitespace
split_ascii_whitespace(text) == SelectSeq(text, IsName)

RECURSIVE FlatMapSplit(_)
\* vals.flat_map(|x| x.split_ascii_whitespace()).collect()
FlatMapSplit(vals) ==
    IF vals = <<>> THEN <<>>
    ELSE split_ascii_whitespace(Head(vals)) \o FlatMapSplit(Tail(vals))

\* value_t!(m, "depth", i32).ok()
DepthValue(m) == IF m.depth.kind = "int" THEN Some(m.depth.value) ELSE None

\* --depth wins over the flags that force the depth
DepthExplicitWins(m) ==
    IF m.depth.kind = "int" THEN Some(m.depth.value)
    ELSE IF m.root_deps_only THEN Some(1)
    ELSE IF m.ignore_external_rel THEN Some(1)
    ELSE None

\* opts.depth once both `if m.is_present(..)` blocks have run
DepthForced(m) ==
    IF m.ignore_external_rel THEN Some(1)
    ELSE IF m.root_deps_only THEN Some(1)
    ELSE DepthValue(m)

\* Options::from(&ArgMatches)
OptionsFromArgs(m) ==
    [features |-> IF m.features = None THEN <<>> ELSE FlatMapSplit(m.features[1]),
     depth |-> DepthForced(m),
     root_deps_only |-> IF m.ignore_external_rel THEN TRUE ELSE m.root_deps_only,
     workspace_only |-> m.ignore_external_rel]

\* Options::all_features
all_features_of(options) == options.features = <<>>

\* no_default_features without the test for an empty list
no_default_features_unless_listed(options) ==
    ~(\E i \in 1..Len(options.features) : options.features[i] = "default")

\* Options::no_default_features
no_default_features(options) ==
    ~(options.features = <<>>
        \/ \E i \in 1..Len(options.features) : options.features[i] = "default")

\* the CliFeatures from_workspace builds for the resolver
CliFeatures(options) ==
    [features |-> {options.features[i] : i \in 1..Len(options.features)},
     all_features |-> all_features_of(options),
     uses_default_features |-> no_default_features(options)]

\* main: Options::from(&m)
ParseOptions ==
    /\ opts = None
    /\ opts' = Some(OptionsFromArgs(args))
    /\ UNCHANGED <<args, cli_features>>
    /\ UNCHANGED <<varsStatus, varsManifest, varsChannel, varsMain, varsFind, varsRoot>>

\* ElaborateWorkspace::from_workspace(workspace, &options)
FromWorkspace ==
    /\ opts # None
    /\ cli_features = None
    /\ cli_features' = Some(CliFeatures(opts[1]))
    /\ UNCHANGED <<args, opts>>
    /\ UNCHANGED <<varsStatus, varsManifest, varsChannel, varsMain, varsFind, varsRoot>>

InitOptions ==
    /\ args \in ArgMatches
    /\ opts = None
    /\ cli_features = None
    /\ IdleStatus
    /\ IdleManifest
    /\ IdleChannel
    /\ IdleMain
    /\ IdleFind
    /\ IdleRoot

NextOptions ==
    \/ ParseOptions
    \/ FromWorkspace

SpecOptions == InitOptions /\ [][NextOptions]_vars

(* ------------------------------------------------------------------------ *)
(* ElaborateWorkspace::determine_root                                       *)
(* ------------------------------------------------------------------------ *)

RootOk(id) == [ok |-> Some(id), error |-> ""]
RootErr(message) == [ok |-> None, error |-> message]

\* a mutant of determine_root: the name is looked up among all packages
DetermineRootAnyPackage(g, workspace_current, root_name) ==
    IF ~IsSome(root_name)
    THEN IF IsSome(workspace_current) THEN RootOk(Unwrap(workspace_current))
         ELSE RootErr("current")
    ELSE IF ~IsSome(workspace_current) THEN RootErr("virtual manifest")
    ELSE LET found == SelectSeq(IterSeq(DOMAIN g),
                                LAMBDA d : d.name = Unwrap(root_name))
         IN  IF found = <<>> THEN RootErr("neither") ELSE RootOk(Head(found))

\* determine_root on the graph g, for a workspace whose current() is
\* workspace_current (None: a virtual manifest) and options.root root_name
DetermineRoot(g, workspace_current, root_name) ==
    IF IsSome(root_name)
    THEN IF IsSome(workspace_current)
         THEN LET workspace_root == Unwrap(workspace_current)
                  found == SelectSeq(IterSeq(g[workspace_root]),
                                     LAMBDA d : d.name = Unwrap(root_name))
              IN  IF Unwrap(root_name) = workspace_root.name
                  THEN RootOk(workspace_root)
                  ELSE IF found # <<>> THEN RootOk(Head(found))
                  ELSE RootErr("neither")
         ELSE RootErr("virtual manifest")
    ELSE IF IsSome(workspace_current) THEN RootOk(Unwrap(workspace_current))
    ELSE RootErr("current")

\* the graphs determine_root is called on: current, compat and latest ones
RootGraphs == CurGraphs \cup UNION {OtherGraphs(g) : g \in CurGraphs}

\* options.root: unset, the member, a direct dependency, a transitive
\* dependency, or no package at all
RootNames == {None, Some("r"), Some("a"), Some("c"), Some("x")}

\* one call of determine_root
DetermineRootCall ==
    /\ root_result = None
    /\ root_result' = Some(DetermineRoot(cur, current, opt_root))
    /\ UNCHANGED current
    /\ UNCHANGED <<varsStatus, varsManifest, varsChannel, varsMain, varsFind, varsOptions>>

InitRoot ==
    /\ cur \in RootGraphs
    /\ opt_root \in RootNames
    /\ iterRev \in BOOLEAN
    /\ current \in {None, Some(R)}
    /\ root_result = None
    /\ compat = [p \in {} |-> {}]
    /\ latest = [p \in {} |-> {}]
    /\ members = {}
    /\ workspace_mode = FALSE
    /\ depth = <<>>
    /\ skip = {}
    /\ ignore = {}
    /\ packages = {}
    /\ root = R
    /\ phase = "idle"
    /\ queue = <<>>
    /\ pkg_status = <<>>
    /\ cursors = <<>>
    /\ format = "list"
    /\ pqueue = <<>>
    /\ lines = <<>>
    /\ dependencies = <<>>
    /\ seen = {}
    /\ IdleManifest
    /\ IdleChannel
    /\ IdleMain
    /\ IdleFind
    /\ IdleOptions

NextRoot == DetermineRootCall

SpecRoot == InitRoot /\ [][NextRoot]_vars

\* the traversal keeps running until its queue is empty: single-threaded code
\* that is never suspended for good
\* the runs whose compat and latest projects resolved to the same graph (the
\* traversals' queues do not depend on the other sides' versions)
InitStatusSameSides ==
    /\ InitStatus
    /\ latest = compat

FairSpecStatus ==
    /\ InitStatusSameSides
    /\ [][NextStatus]_vars
    /\ WF_vars(NextStatus)

(* ------------------------------------------------------------------------ *)
(* Claims about the status resolver and the reporter                        *)
(* ------------------------------------------------------------------------ *)

Last(path) == path[Len(path)]

Sides == {"compat", "latest"}

\* C1: every stored status is, on each side, Unchanged iff the side's cursor is
\* present with the current version, Version(v) iff it is present with another
\* version v, Removed iff it is absent; so a side is changed iff its version
\* differs from the current one or the side is absent.
C1_StatusFromCursors ==
    \A p \in DOMAIN pkg_status : \A side \in Sides :
        LET st == pkg_status[p][side]
            cu == cursors[p][side]
            from == Last(p).ver
        IN  /\ st = Unchanged <=> (IsSome(cu) /\ Unwrap(cu).ver = from)
            /\ st = Removed <=> ~IsSome(cu)
            /\ \A v \in 1..MaxVer :
                  st = Version(v) <=> (IsSome(cu) /\ Unwrap(cu).ver = v /\ v # from)
            /\ is_changed(st) <=> (~IsSome(cu) \/ Unwrap(cu).ver # from)

\* C1 witness: the resolver has stored an unchanged, an updated and a removed side
C1_Witness ==
    /\ phase = "resolved"
    /\ \E p \in DOMAIN pkg_status : pkg_status[p].compat = Unchanged
    /\ \E p \in DOMAIN pkg_status : pkg_status[p].latest.tag = "Version"
    /\ \E p \in DOMAIN pkg_status : pkg_status[p].compat = Removed

\* C2 as stated: with a finite depth N no stored path is longer than N + 1
C2_DepthObedience ==
    \A p \in DOMAIN pkg_status : IsSome(depth) => Len(p) <= Unwrap(depth) + 1

\* C2 amended: with a finite depth N >= 0 no stored path is longer than N + 1,
\* and with a negative N only the root path, of length 1, is stored
C2_DepthObedienceNonNegative ==
    \A p \in DOMAIN pkg_status :
        IsSome(depth) =>
            Len(p) <= (IF Unwrap(depth) >= 0 THEN Unwrap(depth) ELSE 0) + 1

\* C2 witness: the depth bound cut the traversal: a stored path of length
\* N + 1 whose last package has a child the unbounded traversal would push
C2_Witness ==
    /\ phase = "resolved"
    /\ depth = Some(1)
    /\ \E p \in DOMAIN pkg_status : Len(p) = 2 /\ ResolveChildren(p) # <<>>

\* C3: every traversal ends: resolve_status's queue and the reporter's queue
\* become empty, in graphs with cycles and with any depth option
C3_Termination ==
    /\ (phase = "resolve") ~> (phase = "resolved" /\ queue = <<>>)
    /\ (phase = "print") ~> (phase \in {"printed", "panicked"} /\ pqueue = <<>>)

\* C3 witness: the reporter has ended on a graph with a cycle, depth unbounded
C3_Witness ==
    /\ phase = "printed"
    /\ depth = None
    /\ A \in cur[C]
    /\ \E p \in DOMAIN pkg_status : Len(p) = 3 /\ A \in cur[Last(p)]

NoDup(path) == \A i, j \in 1..Len(path) : path[i] = path[j] => i = j

\* C4: no path enqueued or stored by resolve_status holds a package twice
C4_NoRepeatOnPath ==
    /\ \A i \in 1..Len(queue) : NoDup(queue[i].path)
    /\ \A p \in DOMAIN pkg_status : NoDup(p)

\* C4 witness: a stored path ends in a package with an edge back into the path
C4_Witness ==
    \E p \in DOMAIN pkg_status :
        /\ Len(p) = 3
        /\ DepthAllows(2)
        /\ \E dep \in cur[Last(p)] : Contains(p, dep)

\* C5: no row of print_list or print_json names an ignored package, neither
\* as the reported package nor as the parent in a `parent->name` label
C5_IgnoredNeverReported ==
    /\ \A k \in 1..Len(lines) :
          \A i \in 1..Len(lines[k][1]) : lines[k][1][i] \notin ignore
    /\ \A k \in 1..Len(dependencies) :
          \A i \in 1..Len(dependencies[k].name) : dependencies[k].name[i] \notin ignore

\* C5 witness: the report has rows while an ignored package passes the row
\* filter and an unignored one was reached below an ignored name's sibling
C5_Witness ==
    /\ phase = "printed"
    /\ lines # <<>>
    /\ \E p \in DOMAIN pkg_status :
          /\ Last(p).name \in ignore
          /\ Passes(pkg_status[p], Last(p).name)

\* C6: once the sandbox manifest is written, the rewritten dependency table
\* has no entry whose key is on the exclude list
C6_ExcludedRemoved ==
    mphase = "written" => \A dep_key \in DOMAIN table : dep_key \notin exclude

\* the channel rule on the parts a requirement was put together from
ChannelRule ==
    IF candidate = <<>> THEN "true"
    ELSE IF reqParts.pre = <<>> THEN "false"
    ELSE IF SameChannel(FirstIdentifier(reqParts.pre), FirstIdentifier(candidate))
    THEN "true" ELSE "false"

\* C7: for every requirement and candidate version, valid_latest_version
\* returns what the channel rule says: true for a candidate without
\* pre-release, false for a pre-release candidate when the requirement has no
\* pre-release, and otherwise true exactly when the first pre-release
\* identifiers are both numeric or both non-numeric and equal
C7_ChannelRule ==
    verdict # "none" => verdict = ChannelRule

\* C8: a run whose execute returned Ok ends with the code of --exit-code
\* when at least one changed row was reported, and with 0 otherwise
C8_ExitCodeIffReported ==
    (pc = "exited" /\ result # <<>> /\ result[1] = "Ok") =>
        exit_status = Some(IF reported > 0 THEN flag_exit_code ELSE 0)

\* C9: when the process has ended, neither temporary project is left behind
C9_SandboxesReleased ==
    pc = "exited" => ~compat_alive /\ ~latest_alive

\* C10: when update_version_and_feature has returned, the loop has processed
\* every entry of the table, also when a registry query failed on the way
C10_FailureDegraded ==
    mphase \in {"updated", "written"} =>
        mresult = "Ok" /\ reached = DOMAIN table

\* C17: the rows the reporter keeps are pairwise different, in list format
\* (lines) and in json format (dependencies)
C17_NoDuplicateRows ==
    /\ \A i, j \in 1..Len(lines) : lines[i] = lines[j] => i = j
    /\ \A i, j \in 1..Len(dependencies) : dependencies[i] = dependencies[j] => i = j

\* C17 witness: a list report is complete in which two different paths end in
\* the same package and format to the same line
C17_Witness ==
    /\ phase = "printed"
    /\ format = "list"
    /\ ignore = {}
    /\ members = {R}
    /\ lines # <<>>
    /\ \E p, q \in DOMAIN pkg_status :
          /\ p # q
          /\ Len(p) > 1 /\ Len(q) > 1
          /\ Passes(pkg_status[p], Last(p).name)
          /\ Passes(pkg_status[q], Last(q).name)
          /\ ListLine(p, pkg_status[p]) = ListLine(q, pkg_status[q])

\* the first key with the given name when the keys S are iterated forwards
\* (rev = FALSE) or backwards (rev = TRUE)
FirstNamed(rev, S, name) ==
    LET named == {d \in S : d.name = name}
    IN  IF named = {} THEN None
        ELSE Some(CHOOSE x \in named :
                    \A y \in named \ {x} :
                        IF rev THEN Key(x) > Key(y) ELSE Key(x) < Key(y))

RECURSIVE CursorAlong(_, _, _)
\* the cursor resolve_status reaches in graph g at the end of path p when the
\* maps are iterated in the order rev
CursorAlong(rev, g, p) ==
    IF Len(p) = 1
    THEN IF workspace_mode THEN Some(FindMember(p[1]))
         ELSE IF ~IsSome(opt_root) THEN Some(CurrentMember)
         ELSE IF Unwrap(opt_root) = CurrentMember.name THEN Some(CurrentMember)
         ELSE FirstNamed(rev, g[CurrentMember], Unwrap(opt_root))
    ELSE LET above == CursorAlong(rev, g, SubSeq(p, 1, Len(p) - 1))
         IN  IF ~IsSome(above) THEN None
             ELSE IF Unwrap(above) \notin DOMAIN g THEN None
             ELSE FirstNamed(rev, g[Unwrap(above)], Last(p).name)

\* the status of path p when the maps are iterated in the order rev
StatusIn(rev, p) ==
    [compat |-> FromVersions(Last(p).ver, VersionOf(CursorAlong(rev, compat, p))),
     latest |-> FromVersions(Last(p).ver, VersionOf(CursorAlong(rev, latest, p)))]

\* C18: the status stored for a path is the status the other iteration order
\* of the maps gives it, so the rows built from the statuses are the same too
C18_OrderIndependent ==
    \A p \in DOMAIN pkg_status : pkg_status[p] = StatusIn(~iterRev, p)

\* C14: in compat mode (write_manifest_semver) every entry of the rewritten
\* table has the version requirement, and the form, the original manifest gave it
C14_CompatKeepsVersions ==
    (mphase # "idle" /\ ~version_to_latest) =>
        \A dep_key \in DOMAIN table :
            /\ table[dep_key].isTable = orig_table[dep_key].isTable
            /\ table[dep_key].version = orig_table[dep_key].version

\* C14 witness: a compat-mode manifest is written in which an inline table
\* was rewritten (its features) next to a string entry with a requirement
C14_Witness ==
    /\ mphase = "written"
    /\ ~version_to_latest
    /\ \E dep_key \in DOMAIN table :
          /\ table[dep_key] # orig_table[dep_key]
          /\ IsSome(table[dep_key].version)
    /\ \E dep_key \in DOMAIN table :
          ~table[dep_key].isTable /\ IsSome(table[dep_key].version)

\* C19: once the paths are rewritten, an entry with a relative path whose
\* manifest is not in the sandbox is gone from the table and recorded in
\* skipped exactly when workspace_only is set; otherwise it is kept with the
\* canonical path and skipped stays empty
C19_SkippedIffWorkspaceOnly ==
    mphase \notin {"idle", "read"} =>
        \A name \in DOMAIN orig_table :
            (orig_table[name].isTable /\ orig_table[name].path = "outside") =>
                IF workspace_only
                THEN name \notin DOMAIN table /\ name \in skipped
                ELSE /\ name \in DOMAIN table
                     /\ table[name].path = "canonical"
                     /\ skipped = {}

\* a run of execute that returned Ok, in list or json format, without a row
NothingReported ==
    /\ pc = "exited"
    /\ result # <<>> /\ result[1] = "Ok"
    /\ flag_format \in {"list", "json"}
    /\ reported = 0

UpToDateLines == Cardinality({i \in 1..Len(stdout) : stdout[i] = UpToDate})

\* C13 as stated: without a row, single-package mode prints exactly one "up
\* to date" line and workspace mode prints nothing, in both formats
C13_UpToDateLine ==
    NothingReported =>
        IF is_workspace THEN stdout = <<>> ELSE UpToDateLines = 1

\* C13 amended: without a row, list format prints the "up to date" line once
\* and nothing else, in single-package mode and in workspace mode; json
\* format prints one JSON object per root, followed by the line in workspace
\* mode and by nothing in single-package mode
C13_UpToDateLineByMode ==
    NothingReported =>
        /\ flag_format = "list" => stdout = <<UpToDate>>
        /\ flag_format = "json" =>
              /\ UpToDateLines = (IF is_workspace THEN 1 ELSE 0)
              /\ stdout # <<>> /\ stdout[1] = "json"
              /\ is_workspace => stdout[Len(stdout)] = UpToDate
              /\ \A i \in 1..Len(stdout) : stdout[i] \in {"json", UpToDate}

\* C13 witness: a workspace run over two members in list format ended
\* without a row
C13_Witness ==
    /\ NothingReported
    /\ is_workspace
    /\ flag_format = "list"
    /\ sum = 0
    /\ stdout # <<>>

\* the channel rule between a requirement and a candidate, on the
\* requirement's parts
ChannelCompatible(req, summary) ==
    IF summary.pre = <<>> THEN TRUE
    ELSE IF req[1].pre = <<>> THEN FALSE
    ELSE SameChannel(FirstIdentifier(req[1].pre), FirstIdentifier(summary.pre))

\* the candidates of the registry that pass find_update's filter as stated
Passing ==
    {summary \in registry :
        /\ ~VersionLess(summary, version)
        /\ IF fu_requirement = <<>> THEN TRUE
           ELSE IF find_latest
           THEN IF aggressive THEN TRUE ELSE ChannelCompatible(fu_requirement, summary)
           ELSE VersionReqMatches(fu_requirement, summary)}

Greatest(summaries) == CHOOSE a \in summaries : \A b \in summaries : ~VersionLess(a, b)

\* C11: when the registry answered and at least one candidate passes the
\* filter, find_update returns the passing candidate of the greatest version
C11_GreatestPassing ==
    (outcome \in {"Ok", "panic"} /\ Passing # {}) =>
        /\ outcome = "Ok"
        /\ latest_summary = <<Greatest(Passing)>>

\* C12: find_update ends with a summary or an error value and never crashes;
\* when it returns a summary although no candidate passes, it has called warn
\* once and the summary is the registry's highest version
C12_WarnsNeverCrashes ==
    outcome # "none" =>
        /\ outcome \in {"Ok", "Err"}
        /\ (outcome = "Ok" /\ Passing = {}) =>
              /\ Len(warnings) = 1
              /\ registry # {}
              /\ latest_summary = <<Greatest(registry)>>

\* C15: after option parsing, root_deps_only implies depth = 1, with or
\* without an explicit --depth, and --ignore-external-rel implies
\* workspace_only, root_deps_only and depth = 1
C15_ForcedDepth ==
    opts # None =>
        /\ opts[1].root_deps_only => opts[1].depth = Some(1)
        /\ args.ignore_external_rel =>
              /\ opts[1].workspace_only
              /\ opts[1].root_deps_only
              /\ opts[1].depth = Some(1)

\* C15 witness: --root-deps-only together with an explicit --depth 2 was parsed
C15_Witness ==
    /\ opts # None
    /\ args.root_deps_only
    /\ ~args.ignore_external_rel
    /\ args.depth = [kind |-> "int", value |-> 2]
    /\ opts[1].depth = Some(1)

\* C16: all_features() is true exactly for the empty features list,
\* no_default_features() exactly for a non-empty list without `default`,
\* and they are never true together
C16_FeatureFlags ==
    opts # None =>
        LET listed == {opts[1].features[i] : i \in 1..Len(opts[1].features)}
        IN  /\ all_features_of(opts[1]) <=> Len(opts[1].features) = 0
            /\ no_default_features(opts[1]) <=> (listed # {} /\ "default" \notin listed)
            /\ ~(all_features_of(opts[1]) /\ no_default_features(opts[1]))

\* C16 witness: --features given with only whitespace parsed to an empty list
C16_Witness ==
    /\ opts # None
    /\ args.features # None
    /\ opts[1].features = <<>>
    /\ all_features_of(opts[1])

\* C20: the feature selection from_workspace hands to the resolver asks for
\* all features exactly when all_features() is true and keeps the default
\* features exactly when no_default_features() is false
C20_ResolverFeatures ==
    cli_features # None =>
        /\ cli_features[1].all_features = all_features_of(opts[1])
        /\ cli_features[1].uses_default_features = ~no_default_features(opts[1])

\* the reporter has ended, with its rows or with a panic
ReporterEnded == phase \in {"printed", "panicked"}

\* the row filter as the reporter's rules state it
PassesFilters(p) ==
    /\ Last(p).name \notin ignore
    /\ is_changed(pkg_status[p].compat) \/ is_changed(pkg_status[p].latest)
    /\ packages = {} \/ Last(p).name \in packages

\* the record of path p is among the rows of the report
InReport(p) ==
    IF format = "list"
    THEN \E k \in 1..Len(lines) : lines[k] = ListLine(p, pkg_status[p])
    ELSE \E k \in 1..Len(dependencies) : dependencies[k] = JsonLine(p, pkg_status[p])

\* the children of p the reporter's rules make eligible
Eligible(p) ==
    {Append(p, dep) : dep \in {d \in cur[Last(p)] :
        /\ ~Contains(p, d)
        /\ d.name \notin skip
        /\ workspace_mode => d \notin members}}

\* C22: when the reporter has ended, the record of a visited node is in the
\* report iff its name is not ignored, one of its statuses is changed and the
\* packages filter lets it through; and every visited node that is not
\* ignored and not at the depth limit has had its eligible children visited
C22_EmittedIffPasses ==
    ReporterEnded =>
        \A p \in seen \cap DOMAIN pkg_status :
            /\ InReport(p) <=> PassesFilters(p)
            /\ (Last(p).name \notin ignore /\ DepthAllows(Len(p) - 1)) =>
                  Eligible(p) \subseteq seen

\* the visited nodes whose record the reporter's filters let through
Emitted == {p \in seen \cap DOMAIN pkg_status : PassesFilters(p)}

\* the record (name, project, compat, latest, kind, platform) of a node
Record(p) == ListLine(p, pkg_status[p])

\* C28: when the reporter has ended, the number of rows it reports is the
\* number of distinct records of the nodes that pass the filters, in list
\* format and in json format alike
C28_JsonSameRecords ==
    phase = "printed" =>
        (IF format = "json" THEN Len(dependencies) ELSE Len(lines))
            = Cardinality({Record(p) : p \in Emitted})

\* serde_json's text for an Option<String> field
JsonShown(o) == IF IsSome(o) THEN Unwrap(o) ELSE "null"

\* C24: when the root passes the filters, the reporter ends without a panic
\* and its report has the root's row with kind and platform shown as `---`
C24_RootRow ==
    (ReporterEnded /\ <<root>> \in Emitted) =>
        /\ phase = "printed"
        /\ IF format = "list"
           THEN \E k \in 1..Len(lines) :
                   /\ lines[k][1] = <<root.name>>
                   /\ lines[k][5] = "---" /\ lines[k][6] = "---"
           ELSE \E k \in 1..Len(dependencies) :
                   /\ dependencies[k].name = <<root.name>>
                   /\ JsonShown(dependencies[k].kind) = "---"
                   /\ JsonShown(dependencies[k].platform) = "---"

\* the label the rule gives the record of a non-root path
RuleLabel(p) ==
    IF Len(p) = 1 THEN <<Last(p).name>>
    ELSE IF workspace_mode THEN <<Last(p).name>>
    ELSE IF p[Len(p) - 1] = CurrentMember THEN <<Last(p).name>>
    ELSE <<p[Len(p) - 1].name, "->", Last(p).name>>

\* the labels of the rows of the report
RowLabels ==
    IF format = "list"
    THEN {lines[k][1] : k \in 1..Len(lines)}
    ELSE {dependencies[k].name : k \in 1..Len(dependencies)}

\* C23: the labels of the report are the labels the rule gives the emitted
\* nodes: the bare package name in workspace mode or below the current
\* member, `parent->name` in every other case
C23_LabelRule ==
    phase \in {"print", "printed"} => RowLabels = {RuleLabel(p) : p \in Emitted}

\* C23 witness: below a root chosen with --root that is a direct dependency,
\* the report has a row labelled `a->c`
C23_Witness ==
    /\ phase = "printed"
    /\ ~workspace_mode
    /\ opt_root = Some("a")
    /\ <<"a", "->", "c">> \in RowLabels

\* the path without its last package
Parent(p) == SubSeq(p, 1, Len(p) - 1)

\* C25: the cursor of a stored child on each side is Some(d) only for a
\* dependency d of the parent's cursor in that side's graph with the child's
\* name, and None iff the parent's cursor is None or has no dependency of
\* that name
C25_CursorByName ==
    \A p \in DOMAIN cursors : \A side \in Sides :
        Len(p) > 1 =>
            LET g == IF side = "compat" THEN compat ELSE latest
                k == cursors[Parent(p)][side]
                c == cursors[p][side]
                named == IF IsSome(k) THEN {d \in g[Unwrap(k)] : d.name = Last(p).name}
                         ELSE {}
            IN  /\ IsSome(c) => Unwrap(c) \in named
                /\ c = None <=> named = {}

\* C25 witness: a stored child whose compat cursor is a package of another
\* version than the child, found by name below the parent's cursor
C25_Witness ==
    \E p \in DOMAIN cursors :
        /\ Len(p) = 3
        /\ IsSome(cursors[p].compat)
        /\ Unwrap(cursors[p].compat) # Last(p)
        /\ Unwrap(cursors[p].compat).name = Last(p).name
        /\ cursors[p].latest = None

\* C26: below the root, no path stored by resolve_status, no path the
\* reporter visits and no row of the report names a package of the skip set
C26_SkippedSuppressed ==
    /\ \A p \in DOMAIN pkg_status \cup seen :
          \A i \in 2..Len(p) : p[i].name \notin skip
    /\ \A label \in RowLabels :
          label[Len(label)] \in skip => label = <<root.name>>

\* C26 witness: the report is complete while a package of the skip set is
\* a dependency of a stored package
C26_Witness ==
    /\ phase = "printed"
    /\ \E p \in DOMAIN pkg_status : \E dep \in cur[Last(p)] :
          /\ dep.name \in skip
          /\ ~Contains(p, dep)
          /\ DepthAllows(Len(p) - 1)

\* C29: every path the reporter looks up, and every path waiting in its
\* queue, is a key resolve_status stored
C29_LookupsStored ==
    phase \in {"print", "printed", "panicked"} =>
        /\ \A p \in seen : p \in DOMAIN pkg_status
        /\ \A i \in 1..Len(pqueue) : pqueue[i] \in DOMAIN pkg_status

\* C29 witness: in workspace mode the reporter has looked up a path of
\* three packages and ended
C29_Witness ==
    /\ phase = "printed"
    /\ workspace_mode
    /\ \E p \in seen : Len(p) = 3 /\ Last(p).name \notin ignore

\* whether q extends p by at least one package
Extends(q, p) == Len(q) > Len(p) /\ SubSeq(q, 1, Len(p)) = p

\* C30: when a side's cursor of a stored path is absent, that side's status
\* of every stored path that extends it is Removed
C30_LostStaysLost ==
    \A p \in DOMAIN pkg_status : \A q \in DOMAIN pkg_status : \A side \in Sides :
        (Extends(q, p) /\ cursors[p][side] = None) => pkg_status[q][side] = Removed

\* C30 witness: a stored path without compat cursor has a stored extension
\* whose package the compat graph still has below the same name
C30_Witness ==
    \E p \in DOMAIN pkg_status : \E q \in DOMAIN pkg_status :
        /\ Extends(q, p)
        /\ cursors[p].compat = None
        /\ \E d \in DOMAIN compat : d.name = Last(q).name

\* the direct dependencies of the current member named as options.root
NamedDirect ==
    IF IsSome(current) /\ IsSome(opt_root)
    THEN {d \in cur[Unwrap(current)] : d.name = Unwrap(opt_root)}
    ELSE {}

\* C27: determine_root returns the current member when options.root is unset
\* or names it, a direct dependency of that name when there is one, the
\* error "neither" when the name is neither, another error when options.root
\* is set against a virtual manifest; it returns no other package
C27_DetermineRoot ==
    root_result # None =>
        LET returned == root_result[1]
        IN  /\ (IsSome(current) /\ opt_root = None) => returned = RootOk(Unwrap(current))
            /\ (IsSome(current) /\ opt_root = Some(Unwrap(current).name)) =>
                  returned = RootOk(Unwrap(current))
            /\ (IsSome(current) /\ IsSome(opt_root)
                    /\ opt_root # Some(Unwrap(current).name)) =>
                  IF NamedDirect # {}
                  THEN IsSome(returned.ok) /\ Unwrap(returned.ok) \in NamedDirect
                  ELSE returned = RootErr("neither")
            /\ (~IsSome(current) /\ IsSome(opt_root)) =>
                  /\ returned.ok = None
                  /\ returned.error # "neither"
                  /\ returned.error # ""
            /\ IsSome(returned.ok) =>
                  /\ IsSome(current)
                  /\ \/ Unwrap(returned.ok) = Unwrap(current)
                     \/ Unwrap(returned.ok) \in cur[Unwrap(current)]

\* C27 witness: options.root named a transitive dependency of the current
\* member and determine_root failed with "neither"
C27_Witness ==
    /\ root_result = Some(RootErr("neither"))
    /\ opt_root = Some("c")
    /\ \E d \in DOMAIN cur : d.name = "c"

\* the feature names requested on the command line
Requested == {features[i] : i \in 1..Len(features)} \ {""}

\* the declared features table, empty when the manifest declares none
Declared == IF IsSome(features_table) THEN Unwrap(features_table) ELSE [f \in {} |-> <<>>]

RECURSIVE FeatureClosure(_)
\* the least set of names that holds S and, with every declared feature in
\* it, the names that feature lists
FeatureClosure(S) ==
    LET more == S \cup UNION {{Declared[f][i] : i \in 1..Len(Declared[f])} :
                                 f \in S \cap DOMAIN Declared}
    IN  IF more = S THEN S ELSE FeatureClosure(more)

\* C21: feature_includes is true iff all features are requested, or the
\* dependency is not optional and `default` is requested, or its name is in
\* the closure of the requested names over the declared features table
C21_FeatureClosure ==
    \A name \in DepKeys : \A optional \in BOOLEAN :
        feature_includes(name, optional) <=>
            \/ features = <<>>
            \/ ~optional /\ "default" \in Requested
            \/ name \in FeatureClosure(Requested)

====
